---- MODULE Spec2Model ----
(***************************************************************************)
(* A model of the robulab service library (package service, version        *)
(* 0.15.0): the Service facade around a WAMP client.                       *)
(*                                                                         *)
(*   SpecRun / FairRun   Service.Run and its keepalive goroutine runPing   *)
(*   SpecReg             Service.RegisterAll and Service.SubscribeAll      *)
(*   SpecFlags           one flag definition and its parse (flag.String /  *)
(*                       flag.Bool over os.Getenv / os.LookupEnv)          *)
(*   SpecNew             New followed by Service.Connect                   *)
(*   SpecHelpers         one call of a response helper, an error           *)
(*                       classifier, ParseCallerID or HasAnyRole           *)
(*                                                                         *)
(* The WAMP client (Register, Subscribe, Call, Close, Done), the flag and  *)
(* logging packages and the operating system are the environment: what     *)
(* they return is drawn from small sets.                                   *)
(***************************************************************************)
EXTENDS Integers, Sequences, FiniteSets, TLC

\* The keepalive calls that are counted; the count saturates here.
MaxPings == 2

VARIABLES
    srv,            \* the Service fields Run reads (pingEnabled)
    runPc,          \* where the goroutine calling Run stands
    sigintChannel,  \* signals buffered in sigintChannel (capacity 1)
    sigintSeen,     \* an interrupt was delivered since signal.Notify
    clientDone,     \* the channel of Client.Done() is closed
    closeByMain,    \* calls of Client.Close by Run's defer
    closeByPing,    \* calls of Client.Close by runPing
    pingClose,      \* the stop channel: "none", "open" or "closed"
    pingPc,         \* where the runPing goroutine stands
    tickerC,        \* ticks buffered in ticker.C (capacity 1)
    pingStarted,    \* go statements executed for runPing
    pingCalls,      \* keepalive calls issued (saturating at MaxPings)
    pingFailed,     \* a keepalive call returned an error
    callsAfterReturn, \* a keepalive call was issued after Run returned
    closeFailed     \* the deferred Client.Close returned an error

runVars == <<srv, runPc, sigintChannel, sigintSeen, clientDone, closeByMain,
             closeByPing, pingClose, pingPc, tickerC, pingStarted, pingCalls,
             pingFailed, callsAfterReturn, closeFailed>>

\* Service.RegisterAll / Service.SubscribeAll
VARIABLES
    call,           \* the batch helper that was called: "none" until then
    procedures,     \* the mapping given to RegisterAll
    events,         \* the mapping given to SubscribeAll
    pending,        \* keys the range loop has not reached yet
    regCalls,       \* the calls made to Client.Register, in order
    subCalls,       \* the calls made to Client.Subscribe, in order
    regRet,         \* what RegisterAll returned (NotReturned while it runs)
    subRet          \* what SubscribeAll returned (NotReturned while it runs)

regVars == <<call, procedures, events, pending, regCalls, subCalls, regRet, subRet>>

\* The process
VARIABLES
    exitCode        \* Running, or Exited(code) after os.Exit(code)

procVars == <<exitCode>>

\* One flag
VARIABLES
    fsPc,           \* "start", "defined" (flag.String was called), "parsed"
    fsSetting,      \* the flag looked at
    fsEnv,          \* its environment variable: unset, or set to a string
    fsArg,          \* the flag on the command line: not given, or its value
    fsDefault,      \* the value the caller put in the Config for it
    fsFlag          \* the value the flag's pointer gives

flagVars == <<fsPc, fsSetting, fsEnv, fsArg, fsDefault, fsFlag>>

\* New and Service.Connect
VARIABLES
    newPc,          \* "start", "parsed", "returned" or "exited"
    defaultConfig,  \* the Config given to New
    cliSer,         \* a --serialization argument on the command line, or none
    cli,            \* what the flags' pointers give after flag.Parse
    pingEnableSrc,  \* where *pingEnable comes from: the argument, the variable
    osEnv,          \* what New met: the logger's setup, the certificates' loading
    clientCfg,      \* the client.ClientConfig Connect built
    connectAttempts \* calls of client.ConnectNet

newVars == <<newPc, defaultConfig, cliSer, cli, pingEnableSrc, osEnv, clientCfg,
             connectAttempts>>

\* The helpers: one call of a function that has no state
VARIABLES
    hPc,            \* "called" or "returned"
    hFn,            \* the function called
    hArgs,          \* its arguments
    hRet            \* what it returned (NotReturned until then)

helperVars == <<hPc, hFn, hArgs, hRet>>

vars == <<runVars, regVars, procVars, flagVars, newVars, helperVars>>

notRun == <<regVars, procVars, flagVars, newVars, helperVars>>

notReg == <<runVars, flagVars, newVars, helperVars>>

notFlags == <<runVars, regVars, procVars, newVars, helperVars>>

notHelpers == <<runVars, regVars, procVars, flagVars, newVars>>

notNew == <<runPc, sigintChannel, sigintSeen, clientDone, closeByMain,
            closeByPing, pingClose, pingPc, tickerC, pingStarted, pingCalls,
            pingFailed, callsAfterReturn, closeFailed, regVars, flagVars,
            helperVars>>

(***************************************************************************)
(* Values                                                                  *)
(***************************************************************************)

\* os.Exit was not called, and os.Exit(code) was.
Running == [exited |-> FALSE]

Exited(code) == [exited |-> TRUE, code |-> code]

ExitSuccess == 0

ExitArgument == 1

ExitService == 2

ExitConnect == 3

ExitRegistration == 4

\* time.Second, durations being counted in milliseconds.
Second == 1000

\* The broker URL is a sequence of characters, so that strings.HasPrefix is
\* computed; the other strings are taken whole, "" being the empty string.
EmptyURL == <<>>

WsURL == <<"w", "s", ":", "/", "/", "b">>

WssURL == <<"w", "s", "s", ":", "/", "/", "b">>

WssPrefix == <<"w", "s", "s", ":", "/", "/">>

\* strings.HasPrefix
HasPrefix(str, prefix) ==
    /\ Len(str) >= Len(prefix)
    /\ SubSeq(str, 1, Len(prefix)) = prefix

\* The duration strings of the model that time.ParseDuration accepts, with
\* their values; it rejects every other string, the empty one included.
Durations ==
    ("0s" :> 0) @@ ("500ms" :> 500) @@ ("2s" :> 2 * Second)
      @@ ("5s" :> 5 * Second) @@ ("-1s" :> 0 - Second)

\* The error of time.ParseDuration is dropped: every string is a duration.
ParseDurationNoError(str) ==
    IF str \in DOMAIN Durations
      THEN [d |-> Durations[str], err |-> FALSE]
      ELSE [d |-> 0, err |-> FALSE]

\* time.ParseDuration: the duration and whether err != nil
ParseDuration(str) ==
    IF str \in DOMAIN Durations
      THEN [d |-> Durations[str], err |-> FALSE]
      ELSE [d |-> 0, err |-> TRUE]

\* The files that exist: os.Stat reports every other name as not existing.
ExistingFiles == {"ca.crt", "client.crt", "client.key"}

(***************************************************************************)
(* The state before an operation is called                                 *)
(***************************************************************************)

Unset == [set |-> FALSE]

NotGiven == [given |-> FALSE]

\* client.JSON and client.MSGPACK
Serializations == {"JSON", "MSGPACK"}

\* The Config of the examples: Name, Version, Description, Serialization.
Configs ==
    [Name : {"example"}, Version : {"0.1.0"}, Description : {"Simple example"},
     Serialization : Serializations]

\* The flags before flag.Parse.
Unparsed ==
    [cliVer |-> FALSE, cliURL |-> EmptyURL, cliUsr |-> "", cliPwd |-> "",
     cliRlm |-> "", cliCCF |-> "", cliCKF |-> "", cliSCF |-> "",
     cliTimeout |-> "", pingEnable |-> FALSE, pingEndpoint |-> "",
     pingInterval |-> ""]

\* &Service{}: every field at its zero value
ZeroService ==
    [name |-> "", serialization |-> "JSON", realm |-> "", url |-> EmptyURL,
     username |-> "", password |-> "", pingEnabled |-> FALSE, pingInterval |-> 0,
     pingEndpoint |-> "", useAuth |-> FALSE, useTLS |-> FALSE,
     serverCert |-> "nil", clientCert |-> "nil", Logger |-> "nil",
     Client |-> "nil", timeout |-> 0]

\* No --ping-enable argument and no SERVICE_ENABLE_PING variable.
NoPingEnableSrc == [arg |-> NotGiven, env |-> Unset]

\* Nothing of the environment was consulted.
NoEnv == [logger |-> "unused", serverCert |-> "unused", clientCert |-> "unused"]

\* A batch helper that has not returned, and one that returned nil.
NotReturned == [returned |-> FALSE]

NilReturned == [returned |-> TRUE]

\* No batch helper has been called.
RegIdle ==
    /\ call = "none"
    /\ procedures = <<>>
    /\ events = <<>>
    /\ pending = {}
    /\ regCalls = <<>>
    /\ subCalls = <<>>
    /\ regRet = NotReturned
    /\ subRet = NotReturned

\* Run has not been called.
RunIdle ==
    /\ runPc = "off"
    /\ sigintChannel = 0
    /\ sigintSeen = FALSE
    /\ clientDone = FALSE
    /\ closeByMain = 0
    /\ closeByPing = 0
    /\ pingClose = "none"
    /\ pingPc = "none"
    /\ tickerC = 0
    /\ pingStarted = 0
    /\ pingCalls = 0
    /\ pingFailed = FALSE
    /\ callsAfterReturn = FALSE
    /\ closeFailed = FALSE

\* No helper is called.
HelpersIdle ==
    /\ hPc = "off"
    /\ hFn = "none"
    /\ hArgs = <<>>
    /\ hRet = NotReturned

\* No flag is looked at.
FlagsIdle ==
    /\ fsPc = "off"
    /\ fsSetting = "broker-url"
    /\ fsEnv = Unset
    /\ fsArg = NotGiven
    /\ fsDefault = ""
    /\ fsFlag = ""

NewIdle ==
    /\ newPc = "off"
    /\ defaultConfig = CHOOSE cfg \in Configs : TRUE
    /\ cliSer = NotGiven
    /\ cli = Unparsed
    /\ pingEnableSrc = NoPingEnableSrc
    /\ osEnv = NoEnv
    /\ clientCfg = "none"
    /\ connectAttempts = 0

(***************************************************************************)
(* One flag: its definition over the environment, and its parse            *)
(***************************************************************************)

\* flag name -> environment variable
StringFlags ==
    ("broker-url" :> "SERVICE_BROKER_URL") @@ ("user" :> "SERVICE_USERNAME")
      @@ ("password" :> "SERVICE_PASSWORD") @@ ("realm" :> "SERVICE_REALM")
      @@ ("tls-client-cert-file" :> "TLS_CLIENT_CERT")
      @@ ("tls-client-key-file" :> "TLS_CLIENT_KEY")
      @@ ("tls-server-cert-file" :> "TLS_SERVER_CERT")
      @@ ("connect-timeout" :> "SERVICE_CONNECT_TIMEOUT")
      @@ ("ping-endpoint" :> "SERVICE_PING_ENDPOINT")
      @@ ("ping-interval" :> "SERVICE_PING_INTERVAL")

BoolFlags == ("ping-enable" :> "SERVICE_ENABLE_PING")

\* An environment variable over the strings S, and a flag on the command line.
EnvOver(S) == {Unset} \cup {[set |-> TRUE, value |-> v] : v \in S}

ArgOver(S) == {NotGiven} \cup {[given |-> TRUE, value |-> v] : v \in S}

\* os.Getenv: the value, "" when the variable is not set
Getenv(env) == IF env.set THEN env.value ELSE ""

\* os.LookupEnv, second result: whether the variable is set
LookupEnvOk(env) == env.set

\* flag.String(name, os.Getenv(Env...), usage): the flag's default; the value the
\* caller's Config holds for the setting is not looked at.
FlagStringDefault(env, configValue) == Getenv(env)

\* The default read from the variable's value: "false" gives false.
FlagBoolDefaultByValue(env) == env.set /\ env.value # "false"

\* _, enablePing := os.LookupEnv(EnvPingEnabled); flag.Bool(name, enablePing, usage)
FlagBoolDefault(env) == LookupEnvOk(env)

\* flag.Parse: a flag given on the command line takes that value, any other
\* keeps its default.
FlagParsed(arg, default) == IF arg.given THEN arg.value ELSE default

FlagStrings == {"", "value"}

FlagEnvStrings == {"", "false"}

\* var cliX = flag.String("x", os.Getenv(EnvX), "...")
FlagDefineString ==
    /\ fsPc = "start"
    /\ fsSetting \in DOMAIN StringFlags
    /\ fsFlag' = FlagStringDefault(fsEnv, fsDefault)
    /\ fsPc' = "defined"
    /\ UNCHANGED <<fsSetting, fsEnv, fsArg, fsDefault>>
    /\ UNCHANGED notFlags

\* var pingEnable = flag.Bool("ping-enable", enablePing, "...")
FlagDefineBool ==
    /\ fsPc = "start"
    /\ fsSetting \in DOMAIN BoolFlags
    /\ fsFlag' = FlagBoolDefault(fsEnv)
    /\ fsPc' = "defined"
    /\ UNCHANGED <<fsSetting, fsEnv, fsArg, fsDefault>>
    /\ UNCHANGED notFlags

\* flag.Parse()
FlagParse ==
    /\ fsPc = "defined"
    /\ fsFlag' = FlagParsed(fsArg, fsFlag)
    /\ fsPc' = "parsed"
    /\ UNCHANGED <<fsSetting, fsEnv, fsArg, fsDefault>>
    /\ UNCHANGED notFlags

NextFlags == FlagDefineString \/ FlagDefineBool \/ FlagParse

(***************************************************************************)
(* New                                                                     *)
(***************************************************************************)

\* The values the flags' pointers may give after flag.Parse: by FlagParsed and
\* FlagStringDefault, every string an argument or the environment may hold, and
\* "" when neither holds one.
FlagValues(S) ==
    {FlagParsed(arg, FlagStringDefault(env, "")) : arg \in ArgOver(S), env \in EnvOver(S)}

URLStrings == {WsURL, WssURL}

URLValues ==
    {FlagParsed(arg, IF env.set THEN env.value ELSE EmptyURL) :
        arg \in ArgOver(URLStrings), env \in EnvOver(URLStrings)}

BoolFlagValues ==
    {FlagParsed(arg, FlagBoolDefault(env)) : arg \in ArgOver(BOOLEAN), env \in EnvOver({""})}

\* The --ping-enable arguments and SERVICE_ENABLE_PING variables that give the
\* flag the value b.
PingEnableSrcs(b) ==
    {s \in [arg : ArgOver(BOOLEAN), env : EnvOver(FlagEnvStrings)] :
        FlagParsed(s.arg, FlagBoolDefault(s.env)) = b}

\* The command lines and environments of the model, as the flags' values.
CliValues ==
    [cliVer : BOOLEAN,
     cliURL : URLValues,
     cliUsr : FlagValues({"user"}),
     cliPwd : FlagValues({"secret"}),
     cliRlm : FlagValues({"realm1"}),
     cliCCF : FlagValues({"client.crt", "missing.crt"}),
     cliCKF : FlagValues({"client.key", "missing.key"}),
     cliSCF : FlagValues({"ca.crt", "missing-ca.crt"}),
     cliTimeout : FlagValues({"abc", "0s", "500ms", "2s", "-1s"}),
     pingEnable : BoolFlagValues,
     pingEndpoint : FlagValues({"my.ping"}),
     pingInterval : FlagValues({"abc", "500ms", "5s"})]

\* What setupLogger meets: logging.GetLogger failing, the value of
\* SERVICE_LOGFORMAT, logging.NewStringFormatter failing.
LoggerEnvs ==
    {[getLoggerErr |-> FALSE, logFormat |-> "", formatterErr |-> FALSE],
     [getLoggerErr |-> TRUE, logFormat |-> "", formatterErr |-> FALSE],
     [getLoggerErr |-> FALSE, logFormat |-> "Bogus", formatterErr |-> FALSE],
     [getLoggerErr |-> FALSE, logFormat |-> "K8S", formatterErr |-> TRUE]}

\* strings.ToLower on the log formats of the model
ToLower(str) ==
    CASE str = "K8S" -> "k8s"
      [] str = "Bogus" -> "bogus"
      [] OTHER -> str

\* An outcome of New: the service so far, the exit, the environment met.
Outcome(service, exit, env) == [srv |-> service, exit |-> exit, env |-> env]

\* setupLogger: the exit it takes, Running when it returns
SetupLoggerExit(lg) ==
    IF lg.getLoggerErr THEN Exited(ExitService)
    ELSE IF ToLower(lg.logFormat) \notin {"", "human", "debug", "k8s", "cluster", "machine"}
      THEN Exited(ExitArgument)
    ELSE IF lg.formatterErr THEN Exited(ExitArgument)
    ELSE Running

\* The result of os.Stat is not looked at: ensureFileExists always returns.
EnsureFileExistsAlways(fname) == Running

\* ensureFileExists: the exit it takes, Running when it returns
EnsureFileExists(fname) ==
    IF fname \notin ExistingFiles THEN Exited(ExitArgument) ELSE Running

\* if !*pingEnable ...; if *pingEndpoint != "" ...; the ping interval
PingSettings(service, c) ==
    LET parsed == ParseDuration(c.pingInterval)
    IN  [service EXCEPT
           !.pingEnabled = IF ~c.pingEnable THEN FALSE ELSE service.pingEnabled,
           !.pingEndpoint = IF c.pingEndpoint # "" THEN c.pingEndpoint
                            ELSE service.pingEndpoint,
           !.pingInterval = IF parsed.err \/ parsed.d < 1 * Second
                              THEN 10 * Second
                              ELSE parsed.d]

\* Only a positive timeout below one second is raised.
RaiseTimeoutPositiveOnly(timeout) ==
    IF timeout > 0 /\ timeout < 1 * Second THEN 1 * Second ELSE timeout

\* if timeout != 0 && timeout < 1*time.Second { timeout = 1 * time.Second }
RaiseTimeout(timeout) ==
    IF timeout # 0 /\ timeout < 1 * Second THEN 1 * Second ELSE timeout

\* Authentication is given up only when both the user and the password miss.
TicketOrAnonymousBothMissing(service, c) ==
    [service EXCEPT
       !.useAuth = IF c.cliUsr = "" /\ c.cliPwd = "" THEN FALSE ELSE service.useAuth,
       !.username = c.cliUsr,
       !.password = c.cliPwd]

\* Ticket authentication or none: the else branches after the TLS checks.
TicketOrAnonymous(service, c) ==
    [service EXCEPT
       !.useAuth = IF c.cliUsr = "" \/ c.cliPwd = "" THEN FALSE ELSE service.useAuth,
       !.username = c.cliUsr,
       !.password = c.cliPwd]

\* The server certificate under wss://: the outcomes, each with the exit taken.
ServerCertOutcomes(service, c, env) ==
    IF c.cliSCF = ""
      THEN {Outcome([service EXCEPT !.serverCert = "nil"], Running, env)}
    ELSE IF EnsureFileExists(c.cliSCF) # Running
      THEN {Outcome(service, EnsureFileExists(c.cliSCF), env)}
    ELSE {Outcome([service EXCEPT !.serverCert = "pool"], Exited(ExitArgument),
                  [env EXCEPT !.serverCert = "ReadFile failed"]),
          Outcome([service EXCEPT !.serverCert = "pool"], Exited(ExitArgument),
                  [env EXCEPT !.serverCert = "no PEM certificate"]),
          Outcome([service EXCEPT !.serverCert = "pool"], Running,
                  [env EXCEPT !.serverCert = "loaded"])}

\* The user and the password are stored beside the client certificate too.
ClientCertOutcomesStoresUser(service, c, env) ==
    IF c.cliCCF = "" \/ c.cliCKF = ""
      THEN {Outcome(TicketOrAnonymous([service EXCEPT !.clientCert = "nil"], c),
                    Running, env)}
    ELSE IF EnsureFileExists(c.cliCCF) # Running
      THEN {Outcome(service, EnsureFileExists(c.cliCCF), env)}
    ELSE IF EnsureFileExists(c.cliCKF) # Running
      THEN {Outcome(service, EnsureFileExists(c.cliCKF), env)}
    ELSE {Outcome(service, Exited(ExitArgument),
                  [env EXCEPT !.clientCert = "LoadX509KeyPair failed"]),
          Outcome([service EXCEPT !.clientCert = "cert",
                                  !.username = c.cliUsr,
                                  !.password = c.cliPwd], Running,
                  [env EXCEPT !.clientCert = "loaded"])}

\* The client certificate under wss://, or the fallback to ticket or none.
ClientCertOutcomes(service, c, env) ==
    IF c.cliCCF = "" \/ c.cliCKF = ""
      THEN {Outcome(TicketOrAnonymous([service EXCEPT !.clientCert = "nil"], c),
                    Running, env)}
    ELSE IF EnsureFileExists(c.cliCCF) # Running
      THEN {Outcome(service, EnsureFileExists(c.cliCCF), env)}
    ELSE IF EnsureFileExists(c.cliCKF) # Running
      THEN {Outcome(service, EnsureFileExists(c.cliCKF), env)}
    ELSE {Outcome(service, Exited(ExitArgument),
                  [env EXCEPT !.clientCert = "LoadX509KeyPair failed"]),
          Outcome([service EXCEPT !.clientCert = "cert"], Running,
                  [env EXCEPT !.clientCert = "loaded"])}

\* if strings.HasPrefix(srv.url, "wss://") { ... } else { ... }
AuthOutcomes(service, c, env) ==
    IF HasPrefix(service.url, WssPrefix)
      THEN UNION {IF sc.exit # Running THEN {sc}
                  ELSE ClientCertOutcomes(sc.srv, c, sc.env) :
                  sc \in ServerCertOutcomes([service EXCEPT !.useTLS = TRUE], c, env)}
      ELSE {Outcome(TicketOrAnonymous(service, c), Running, env)}

\* The URL check is passed whatever the URL.
CheckURLAndRealmNoURL(c) ==
    IF c.cliRlm = "" THEN Exited(ExitArgument) ELSE Running

\* if *cliURL == "" { ... os.Exit(ExitArgument) }; the same for *cliRlm
CheckURLAndRealm(c) ==
    IF c.cliURL = EmptyURL THEN Exited(ExitArgument)
    ELSE IF c.cliRlm = "" THEN Exited(ExitArgument)
    ELSE Running

\* New from `srv := &Service{}` to its return, for the flags c, the Config cfg
\* and the logger's environment lg: its outcomes.
BuildOutcomes(c, cfg, lg) ==
    LET named == [ZeroService EXCEPT !.name = IF cfg.Name = "" THEN "example"
                                                ELSE cfg.Name,
                                     !.pingEnabled = TRUE,
                                     !.pingEndpoint = "ee.ping",
                                     !.pingInterval = 10 * Second]
        env == [NoEnv EXCEPT !.logger = lg]
        logged == [named EXCEPT !.Logger = "logger",
                                !.serialization = cfg.Serialization]
        pinged == PingSettings(logged, c)
        timeout == ParseDuration(c.cliTimeout)
        timed == [pinged EXCEPT !.url = c.cliURL, !.realm = c.cliRlm,
                                !.timeout = RaiseTimeout(timeout.d),
                                !.useAuth = TRUE]
    IN  IF SetupLoggerExit(lg) # Running
          THEN {Outcome(named, SetupLoggerExit(lg), env)}
        ELSE IF CheckURLAndRealm(c) # Running
          THEN {Outcome(logged, CheckURLAndRealm(c), env)}
        ELSE IF timeout.err
          THEN {Outcome([pinged EXCEPT !.url = c.cliURL, !.realm = c.cliRlm],
                        Exited(ExitArgument), env)}
        ELSE AuthOutcomes(timed, c, env)

\* The values a --serialization argument has in the model.
SerializationStrings == {"json", "msgpack", "xml"}

\* flag.Parse meeting a flag that was not defined: the flag set of the command
\* line was made with ExitOnError, it prints the usage and calls os.Exit(2).
ParseErrorExit == Exited(2)

\* The version flag is read but the process goes on after the print.
NewParseFlagsVersionGoesOn ==
    /\ newPc = "start"
    /\ \E ser \in ArgOver(SerializationStrings) :
         /\ cliSer' = ser
         /\ IF ser.given
              THEN /\ exitCode' = ParseErrorExit
                   /\ newPc' = "exited"
                   /\ UNCHANGED <<cli, pingEnableSrc>>
              ELSE \E c \in CliValues :
                      /\ cli' = c
                      /\ pingEnableSrc' \in PingEnableSrcs(c.pingEnable)
                      /\ newPc' = "parsed"
                      /\ UNCHANGED exitCode
    /\ UNCHANGED <<srv, defaultConfig, osEnv, clientCfg, connectAttempts>>
    /\ UNCHANGED notNew

\* A flag set that skips the flags it does not know: the argument is dropped.
NewParseFlagsSkipsUnknown ==
    /\ newPc = "start"
    /\ \E ser \in ArgOver(SerializationStrings) :
         /\ cliSer' = ser
         /\ \E c \in CliValues :
              /\ cli' = c
              /\ pingEnableSrc' \in PingEnableSrcs(c.pingEnable)
              /\ IF c.cliVer
                   THEN /\ exitCode' = Exited(ExitSuccess)
                        /\ newPc' = "exited"
                   ELSE /\ newPc' = "parsed"
                        /\ UNCHANGED exitCode
    /\ UNCHANGED <<srv, defaultConfig, osEnv, clientCfg, connectAttempts>>
    /\ UNCHANGED notNew

\* New up to the version print: the flags are defined and parsed; an argument
\* for a flag New does not define (--serialization) ends the process inside
\* flag.Parse, before New reads any flag; with --version the versions are
\* printed and the process ends.
NewParseFlags ==
    /\ newPc = "start"
    /\ \E ser \in ArgOver(SerializationStrings) :
         /\ cliSer' = ser
         /\ IF ser.given
              THEN /\ exitCode' = ParseErrorExit
                   /\ newPc' = "exited"
                   /\ UNCHANGED <<cli, pingEnableSrc>>
              ELSE \E c \in CliValues :
                      /\ cli' = c
                      /\ pingEnableSrc' \in PingEnableSrcs(c.pingEnable)
                      /\ IF c.cliVer
                           THEN /\ exitCode' = Exited(ExitSuccess)
                                /\ newPc' = "exited"
                           ELSE /\ newPc' = "parsed"
                                /\ UNCHANGED exitCode
    /\ UNCHANGED <<srv, defaultConfig, osEnv, clientCfg, connectAttempts>>
    /\ UNCHANGED notNew

\* New from `srv := &Service{}` on: it returns the Service or ends the process.
NewBuild ==
    /\ newPc = "parsed"
    /\ \E lg \in LoggerEnvs :
         \E out \in BuildOutcomes(cli, defaultConfig, lg) :
            /\ srv' = out.srv
            /\ exitCode' = out.exit
            /\ osEnv' = out.env
            /\ newPc' = IF out.exit = Running THEN "returned" ELSE "exited"
    /\ UNCHANGED <<defaultConfig, cliSer, cli, pingEnableSrc, clientCfg,
                   connectAttempts>>
    /\ UNCHANGED notNew

(***************************************************************************)
(* Service.Connect                                                         *)
(***************************************************************************)

\* The client.ClientConfig Connect builds from the Service.
ClientConfig(service) ==
    [Realm |-> service.realm,
     Serialization |-> service.serialization,
     TlsCfg |-> IF service.useTLS
                  THEN [InsecureSkipVerify |-> service.serverCert = "nil",
                        RootCAs |-> service.serverCert,
                        Certificates |-> IF service.clientCert # "nil"
                                           THEN <<service.clientCert>> ELSE <<>>]
                  ELSE [InsecureSkipVerify |-> FALSE, RootCAs |-> "nil",
                        Certificates |-> <<>>],
     UsesTLS |-> service.useTLS,
     Dial |-> IF service.timeout > 0 THEN "DialTimeout" ELSE "default",
     HelloDetails |-> IF service.useAuth THEN {<<"authid", service.username>>}
                      ELSE {},
     AuthHandlers |-> IF ~service.useAuth THEN {}
                      ELSE IF service.useTLS /\ service.clientCert # "nil"
                        THEN {<<"tls", "">>}
                      ELSE {<<"ticket", service.password>>}]

\* The failure is logged and Connect returns: os.Exit is not called.
ConnectReturnsOnError ==
    /\ newPc = "returned"
    /\ exitCode = Running
    /\ srv.Client = "nil"
    /\ connectAttempts' = connectAttempts + 1
    /\ clientCfg' = ClientConfig(srv)
    /\ \E err \in BOOLEAN :
         IF err
           THEN UNCHANGED <<srv, exitCode>>
           ELSE /\ srv' = [srv EXCEPT !.Client = "client"]
                /\ UNCHANGED exitCode
    /\ UNCHANGED <<newPc, defaultConfig, cliSer, cli, pingEnableSrc, osEnv>>
    /\ UNCHANGED notNew

\* srv.Connect(): client.ConnectNet succeeds and srv.Client is the client, or
\* it fails and the process ends.
Connect ==
    /\ newPc = "returned"
    /\ exitCode = Running
    /\ srv.Client = "nil"
    /\ connectAttempts' = connectAttempts + 1
    /\ clientCfg' = ClientConfig(srv)
    /\ \E err \in BOOLEAN :
         IF err
           THEN /\ exitCode' = Exited(ExitConnect)
                /\ UNCHANGED srv
           ELSE /\ srv' = [srv EXCEPT !.Client = "client"]
                /\ UNCHANGED exitCode
    /\ UNCHANGED <<newPc, defaultConfig, cliSer, cli, pingEnableSrc, osEnv>>
    /\ UNCHANGED notNew

NextNew == NewParseFlags \/ NewBuild \/ Connect

(***************************************************************************)
(* Service.Run                                                             *)
(***************************************************************************)

\* defer srv.Client.Close(); make(sigintChannel); signal.Notify; make(pingClose)
RunEnter ==
    /\ runPc = "entry"
    /\ runPc' = "spawn"
    /\ pingClose' = "open"
    /\ UNCHANGED <<srv, sigintChannel, sigintSeen, clientDone, closeByMain,
                   closeByPing, pingPc, tickerC, pingStarted, pingCalls,
                   pingFailed, callsAfterReturn,
                   closeFailed>>
    /\ UNCHANGED notRun

\* if srv.pingEnabled { go srv.runPing(pingClose) }
RunSpawnAlways ==
    /\ runPc = "spawn"
    /\ runPc' = "select"
    /\ pingPc' = "select"
    /\ pingStarted' = pingStarted + 1
    /\ UNCHANGED <<srv, sigintChannel, sigintSeen, clientDone, closeByMain,
                   closeByPing, pingClose, tickerC, pingCalls, pingFailed,
                   callsAfterReturn,
                   closeFailed>>
    /\ UNCHANGED notRun

RunSpawn ==
    /\ runPc = "spawn"
    /\ runPc' = "select"
    /\ IF srv.pingEnabled
         THEN /\ pingPc' = "select"
              /\ pingStarted' = pingStarted + 1
         ELSE UNCHANGED <<pingPc, pingStarted>>
    /\ UNCHANGED <<srv, sigintChannel, sigintSeen, clientDone, closeByMain,
                   closeByPing, pingClose, tickerC, pingCalls, pingFailed,
                   callsAfterReturn,
                   closeFailed>>
    /\ UNCHANGED notRun

\* A select with a default case: it falls through without any event.
RunSelectSigintNoWait ==
    /\ runPc = "select"
    /\ runPc' = "closeStop"
    /\ UNCHANGED <<srv, sigintChannel, sigintSeen, clientDone, closeByMain,
                   closeByPing, pingClose, pingPc, tickerC, pingStarted,
                   pingCalls, pingFailed, callsAfterReturn,
                   closeFailed>>
    /\ UNCHANGED notRun

\* case <-sigintChannel:
RunSelectSigint ==
    /\ runPc = "select"
    /\ sigintChannel > 0
    /\ sigintChannel' = sigintChannel - 1
    /\ runPc' = "closeStop"
    /\ UNCHANGED <<srv, sigintSeen, clientDone, closeByMain, closeByPing,
                   pingClose, pingPc, tickerC, pingStarted, pingCalls,
                   pingFailed, callsAfterReturn,
                   closeFailed>>
    /\ UNCHANGED notRun

\* The connection-lost branch leaving the select without close(pingClose).
RunSelectDoneNoStop ==
    /\ runPc = "select"
    /\ clientDone
    /\ runPc' = "deferred"
    /\ UNCHANGED <<srv, sigintChannel, sigintSeen, clientDone, closeByMain,
                   closeByPing, pingClose, pingPc, tickerC, pingStarted,
                   pingCalls, pingFailed, callsAfterReturn,
                   closeFailed>>
    /\ UNCHANGED notRun

\* case <-srv.Client.Done():
RunSelectDone ==
    /\ runPc = "select"
    /\ clientDone
    /\ runPc' = "closeStop"
    /\ UNCHANGED <<srv, sigintChannel, sigintSeen, clientDone, closeByMain,
                   closeByPing, pingClose, pingPc, tickerC, pingStarted,
                   pingCalls, pingFailed, callsAfterReturn,
                   closeFailed>>
    /\ UNCHANGED notRun

\* close(pingClose)
RunCloseStop ==
    /\ runPc = "closeStop"
    /\ pingClose' = "closed"
    /\ runPc' = "deferred"
    /\ UNCHANGED <<srv, sigintChannel, sigintSeen, clientDone, closeByMain,
                   closeByPing, pingPc, tickerC, pingStarted, pingCalls,
                   pingFailed, callsAfterReturn,
                   closeFailed>>
    /\ UNCHANGED notRun

\* The deferred srv.Client.Close() runs, its result is dropped, and Run returns.
RunReturn ==
    /\ runPc = "deferred"
    /\ closeByMain' = closeByMain + 1
    /\ \E err \in BOOLEAN : closeFailed' = err
    /\ runPc' = "returned"
    /\ UNCHANGED <<srv, sigintChannel, sigintSeen, clientDone, closeByPing,
                   pingClose, pingPc, tickerC, pingStarted, pingCalls,
                   pingFailed, callsAfterReturn>>
    /\ UNCHANGED notRun

(***************************************************************************)
(* Service.runPing                                                         *)
(***************************************************************************)

\* A break that leaves only the select: the loop goes on.
PingSelectStopInner ==
    /\ pingPc = "select"
    /\ pingClose = "closed"
    /\ pingPc' = "select"
    /\ UNCHANGED <<srv, runPc, sigintChannel, sigintSeen, clientDone,
                   closeByMain, closeByPing, pingClose, tickerC, pingStarted,
                   pingCalls, pingFailed, callsAfterReturn,
                   closeFailed>>
    /\ UNCHANGED notRun

\* case <-closePing: break outer
PingSelectStop ==
    /\ pingPc = "select"
    /\ pingClose = "closed"
    /\ pingPc' = "exited"
    /\ UNCHANGED <<srv, runPc, sigintChannel, sigintSeen, clientDone,
                   closeByMain, closeByPing, pingClose, tickerC, pingStarted,
                   pingCalls, pingFailed, callsAfterReturn,
                   closeFailed>>
    /\ UNCHANGED notRun

\* case <-ticker.C: ctx with timeout; srv.Client.Call(ctx, srv.pingEndpoint, ...)
PingSelectTick ==
    /\ pingPc = "select"
    /\ tickerC > 0
    /\ tickerC' = tickerC - 1
    /\ pingPc' = "calling"
    /\ pingCalls' = IF pingCalls < MaxPings THEN pingCalls + 1 ELSE pingCalls
    /\ callsAfterReturn' = (callsAfterReturn \/ runPc = "returned")
    /\ UNCHANGED <<srv, runPc, sigintChannel, sigintSeen, clientDone,
                   closeByMain, closeByPing, pingClose, pingStarted, pingFailed,
                   closeFailed>>
    /\ UNCHANGED notRun

\* Call returned without error: cancel(), next iteration.
PingCallOk ==
    /\ pingPc = "calling"
    /\ pingPc' = "select"
    /\ UNCHANGED <<srv, runPc, sigintChannel, sigintSeen, clientDone,
                   closeByMain, closeByPing, pingClose, tickerC, pingStarted,
                   pingCalls, pingFailed, callsAfterReturn,
                   closeFailed>>
    /\ UNCHANGED notRun

\* The error branch without its break: the loop goes on after the failure.
PingCallErrGoesOn ==
    /\ pingPc = "calling"
    /\ pingPc' = "select"
    /\ pingFailed' = TRUE
    /\ closeByPing' = closeByPing + 1
    /\ UNCHANGED <<srv, runPc, sigintChannel, sigintSeen, clientDone,
                   closeByMain, pingClose, tickerC, pingStarted, pingCalls,
                   callsAfterReturn,
                   closeFailed>>
    /\ UNCHANGED notRun

\* Call returned an error (a failure, or the context's deadline): cancel(), log.
PingCallErr ==
    /\ pingPc = "calling"
    /\ pingPc' = "failed"
    /\ pingFailed' = TRUE
    /\ UNCHANGED <<srv, runPc, sigintChannel, sigintSeen, clientDone,
                   closeByMain, closeByPing, pingClose, tickerC, pingStarted,
                   pingCalls, callsAfterReturn,
                   closeFailed>>
    /\ UNCHANGED notRun

\* The error branch closing the client without leaving the loop.
PingCloseClientNoBreak ==
    /\ pingPc = "failed"
    /\ closeByPing' = closeByPing + 1
    /\ pingPc' = "select"
    /\ UNCHANGED <<srv, runPc, sigintChannel, sigintSeen, clientDone,
                   closeByMain, pingClose, tickerC, pingStarted, pingCalls,
                   pingFailed, callsAfterReturn,
                   closeFailed>>
    /\ UNCHANGED notRun

\* The error branch leaving the loop without closing the client.
PingCloseClientOnlyBreaks ==
    /\ pingPc = "failed"
    /\ pingPc' = "exited"
    /\ UNCHANGED <<srv, runPc, sigintChannel, sigintSeen, clientDone,
                   closeByMain, closeByPing, pingClose, tickerC, pingStarted,
                   pingCalls, pingFailed, callsAfterReturn,
                   closeFailed>>
    /\ UNCHANGED notRun

\* srv.Client.Close(); break outer
PingCloseClient ==
    /\ pingPc = "failed"
    /\ closeByPing' = closeByPing + 1
    /\ pingPc' = "exited"
    /\ UNCHANGED <<srv, runPc, sigintChannel, sigintSeen, clientDone,
                   closeByMain, pingClose, tickerC, pingStarted, pingCalls,
                   pingFailed, callsAfterReturn,
                   closeFailed>>
    /\ UNCHANGED notRun

(***************************************************************************)
(* The environment of Run: the operating system, the timer, the client.    *)
(***************************************************************************)

\* An interrupt arrives once signal.Notify is installed; the send does not block.
SigInt ==
    /\ runPc # "entry"
    /\ sigintChannel' = 1
    /\ sigintSeen' = TRUE
    /\ UNCHANGED <<srv, runPc, clientDone, closeByMain, closeByPing, pingClose,
                   pingPc, tickerC, pingStarted, pingCalls, pingFailed,
                   callsAfterReturn,
                   closeFailed>>
    /\ UNCHANGED notRun

\* time.NewTicker(srv.pingInterval) delivers a tick; a tick nobody took is kept.
Tick ==
    /\ pingPc # "none"
    /\ tickerC = 0
    /\ tickerC' = 1
    /\ UNCHANGED <<srv, runPc, sigintChannel, sigintSeen, clientDone,
                   closeByMain, closeByPing, pingClose, pingPc, pingStarted,
                   pingCalls, pingFailed, callsAfterReturn,
                   closeFailed>>
    /\ UNCHANGED notRun

\* The connection to the router is lost: Done() fires.
ConnectionLost ==
    /\ ~clientDone
    /\ closeByMain + closeByPing = 0
    /\ clientDone' = TRUE
    /\ UNCHANGED <<srv, runPc, sigintChannel, sigintSeen, closeByMain,
                   closeByPing, pingClose, pingPc, tickerC, pingStarted,
                   pingCalls, pingFailed, callsAfterReturn,
                   closeFailed>>
    /\ UNCHANGED notRun

\* The client was closed: Done() fires.
DoneOnClose ==
    /\ ~clientDone
    /\ closeByMain + closeByPing > 0
    /\ clientDone' = TRUE
    /\ UNCHANGED <<srv, runPc, sigintChannel, sigintSeen, closeByMain,
                   closeByPing, pingClose, pingPc, tickerC, pingStarted,
                   pingCalls, pingFailed, callsAfterReturn,
                   closeFailed>>
    /\ UNCHANGED notRun

RunMain == RunEnter \/ RunSpawn \/ RunSelectSigint \/ RunSelectDone
             \/ RunCloseStop \/ RunReturn

RunPingStep == PingSelectStop \/ PingSelectTick \/ PingCallOk \/ PingCallErr
                 \/ PingCloseClient

RunEnv == SigInt \/ Tick \/ ConnectionLost \/ DoneOnClose

NextRun == RunMain \/ RunPingStep \/ RunEnv

(***************************************************************************)
(* Service.RegisterAll and Service.SubscribeAll                            *)
(***************************************************************************)

\* Entries a mapping may hold.
MaxEntries == 3

AllNames == <<"example.get_magic", "example.do_stuff", "example.set_something",
              "example.goo_happened">>

\* Procedure names and topics.
Names == {AllNames[i] : i \in 1..MaxEntries}

Handlers == {"dummy1", "dummy2"}

OptionDicts == {"opts1", "opts2"}

\* nil
Nil == "nil"

\* The errors Client.Register and Client.Subscribe may return.
Errors == {"err1", "err2"}

\* map[string]HandlerRegistration and map[string]EventSubscription
Mappings ==
    UNION {[keys -> [Handler : Handlers, Options : OptionDicts]] : keys \in SUBSET Names}

\* srv.RegisterAll(procedures) is called.
CallRegisterAll ==
    /\ call = "none"
    /\ \E m \in Mappings :
         /\ procedures' = m
         /\ pending' = DOMAIN m
    /\ call' = "RegisterAll"
    /\ UNCHANGED <<events, regCalls, subCalls, regRet, subRet>>
    /\ UNCHANGED <<procVars, notReg>>

\* The failed call is not reported: the loop goes on to the next entry.
RegisterAllStepSwallows ==
    /\ call = "RegisterAll"
    /\ regRet = NotReturned
    /\ \E name \in pending, err \in {Nil} \cup Errors :
         /\ regCalls' = Append(regCalls, [name |-> name,
                                          handler |-> procedures[name].Handler,
                                          options |-> procedures[name].Options,
                                          err |-> err])
         /\ pending' = pending \ {name}
         /\ UNCHANGED regRet
    /\ UNCHANGED <<call, procedures, events, subCalls, subRet>>
    /\ UNCHANGED <<procVars, notReg>>

\* The options of the entry are not handed on: every call gets the same ones.
RegisterAllStepSameOptions ==
    /\ call = "RegisterAll"
    /\ regRet = NotReturned
    /\ \E name \in pending, err \in {Nil} \cup Errors :
         /\ regCalls' = Append(regCalls, [name |-> name,
                                          handler |-> procedures[name].Handler,
                                          options |-> "opts1",
                                          err |-> err])
         /\ IF err # Nil
              THEN /\ regRet' = [ProcedureName |-> name, Inner |-> err]
                   /\ UNCHANGED pending
              ELSE /\ pending' = pending \ {name}
                   /\ UNCHANGED regRet
    /\ UNCHANGED <<call, procedures, events, subCalls, subRet>>
    /\ UNCHANGED <<procVars, notReg>>

\* A failure that undoes the registrations made before it: only the failed
\* call is left of the log.
RegisterAllStepUnregisters ==
    /\ call = "RegisterAll"
    /\ regRet = NotReturned
    /\ \E name \in pending, err \in {Nil} \cup Errors :
         LET this == [name |-> name,
                      handler |-> procedures[name].Handler,
                      options |-> procedures[name].Options,
                      err |-> err]
         IN  IF err # Nil
               THEN /\ regCalls' = <<this>>
                    /\ regRet' = [ProcedureName |-> name, Inner |-> err]
                    /\ UNCHANGED pending
               ELSE /\ regCalls' = Append(regCalls, this)
                    /\ pending' = pending \ {name}
                    /\ UNCHANGED regRet
    /\ UNCHANGED <<call, procedures, events, subCalls, subRet>>
    /\ UNCHANGED <<procVars, notReg>>

\* One iteration of `for name, regr := range procedures`: the map yields one of
\* the keys it has not yielded yet, in no fixed order; Client.Register is called
\* and an error ends RegisterAll with a RegistrationError.
RegisterAllStep ==
    /\ call = "RegisterAll"
    /\ regRet = NotReturned
    /\ \E name \in pending, err \in {Nil} \cup Errors :
         /\ regCalls' = Append(regCalls, [name |-> name,
                                          handler |-> procedures[name].Handler,
                                          options |-> procedures[name].Options,
                                          err |-> err])
         /\ IF err # Nil
              THEN /\ regRet' = [ProcedureName |-> name, Inner |-> err]
                   /\ UNCHANGED pending
              ELSE /\ pending' = pending \ {name}
                   /\ UNCHANGED regRet
    /\ UNCHANGED <<call, procedures, events, subCalls, subRet>>
    /\ UNCHANGED <<procVars, notReg>>

\* The loop is over: return nil
RegisterAllReturn ==
    /\ call = "RegisterAll"
    /\ regRet = NotReturned
    /\ pending = {}
    /\ regRet' = NilReturned
    /\ UNCHANGED <<call, procedures, events, pending, regCalls, subCalls, subRet>>
    /\ UNCHANGED <<procVars, notReg>>

\* srv.SubscribeAll(events) is called.
CallSubscribeAll ==
    /\ call = "none"
    /\ \E m \in Mappings :
         /\ events' = m
         /\ pending' = DOMAIN m
    /\ call' = "SubscribeAll"
    /\ UNCHANGED <<procedures, regCalls, subCalls, regRet, subRet>>
    /\ UNCHANGED <<procVars, notReg>>

\* A failed subscription ends the process instead of being returned.
SubscribeAllStepExits ==
    /\ call = "SubscribeAll"
    /\ subRet = NotReturned
    /\ exitCode = Running
    /\ \E topic \in pending, err \in {Nil} \cup Errors :
         /\ subCalls' = Append(subCalls, [name |-> topic,
                                          handler |-> events[topic].Handler,
                                          options |-> events[topic].Options,
                                          err |-> err])
         /\ IF err # Nil
              THEN /\ exitCode' = Exited(ExitRegistration)
                   /\ UNCHANGED <<pending, subRet>>
              ELSE /\ pending' = pending \ {topic}
                   /\ UNCHANGED <<subRet, exitCode>>
    /\ UNCHANGED <<call, procedures, events, regCalls, regRet>>
    /\ UNCHANGED notReg

\* One iteration of `for topic, regr := range events`, as in RegisterAll, with
\* Client.Subscribe and a SubscriptionError.
SubscribeAllStep ==
    /\ call = "SubscribeAll"
    /\ subRet = NotReturned
    /\ \E topic \in pending, err \in {Nil} \cup Errors :
         /\ subCalls' = Append(subCalls, [name |-> topic,
                                          handler |-> events[topic].Handler,
                                          options |-> events[topic].Options,
                                          err |-> err])
         /\ IF err # Nil
              THEN /\ subRet' = [Topic |-> topic, Inner |-> err]
                   /\ UNCHANGED pending
              ELSE /\ pending' = pending \ {topic}
                   /\ UNCHANGED subRet
    /\ UNCHANGED <<call, procedures, events, regCalls, regRet>>
    /\ UNCHANGED <<procVars, notReg>>

\* The loop is over: return nil
SubscribeAllReturn ==
    /\ call = "SubscribeAll"
    /\ subRet = NotReturned
    /\ pending = {}
    /\ subRet' = NilReturned
    /\ UNCHANGED <<call, procedures, events, pending, regCalls, subCalls, regRet>>
    /\ UNCHANGED <<procVars, notReg>>

NextReg == CallRegisterAll \/ RegisterAllStep \/ RegisterAllReturn
             \/ CallSubscribeAll \/ SubscribeAllStep \/ SubscribeAllReturn

(***************************************************************************)
(* The helpers: responses, error classification, the caller's identity     *)
(***************************************************************************)

\* A Go value held in an interface{}: its dynamic type and the value. A bool
\* is n = 1 or 0, an integer is n, a float is n tenths (15 is 1.5), a string is
\* the sequence s of its characters, a list is the sequence l of its elements,
\* a map is known by the number n of its entries.
GoValue(kind, n, s, l) == [kind |-> kind, n |-> n, s |-> s, l |-> l]

\* The key is not in the map.
Absent == GoValue("absent", 0, <<>>, <<>>)

GoNil == GoValue("nil", 0, <<>>, <<>>)

GoBool(b) == GoValue("bool", IF b THEN 1 ELSE 0, <<>>, <<>>)

GoInt(i) == GoValue("int", i, <<>>, <<>>)

GoFloat(tenths) == GoValue("float", tenths, <<>>, <<>>)

GoString(chars) == GoValue("string", 0, chars, <<>>)

GoList(elems) == GoValue("list", 0, <<>>, elems)

GoDict(entries) == GoValue("dict", entries, <<>>, <<>>)

\* The strings of the tests, as characters.
StrFoo == <<"f", "o", "o">>

StrTrusted == <<"t", "r", "u", "s", "t", "e", "d">>

StrAdmin == <<"a", "d", "m", "i", "n">>

Str12345 == <<"1", "2", "3", "4", "5">>

StrAbc == <<"a", "b", "c">>

Str017 == <<"0", "1", "7">>

\* &client.InvokeResult{}: nil Args, nil Kwargs, the empty URI
ZeroInvokeResult == [Args |-> <<>>, Kwargs |-> {}, Err |-> ""]

\* &client.InvokeResult{Args: wamp.List{value}}
ReturnValue(value) == [ZeroInvokeResult EXCEPT !.Args = <<value>>]

\* The URI is put in the arguments of the response.
ReturnErrorAsValue(uri) == [ZeroInvokeResult EXCEPT !.Args = <<uri>>]

\* &client.InvokeResult{Err: wamp.URI(uri)}
ReturnError(uri) == [ZeroInvokeResult EXCEPT !.Err = uri]

\* &client.InvokeResult{}
ReturnEmpty == ZeroInvokeResult

\* The values and the URIs the responses are built from.
ReturnValues ==
    {GoNil, GoBool(TRUE), GoInt(12345), GoString(StrFoo),
     GoList(<<GoString(StrAdmin)>>), GoDict(1)}

URIs == {"", "test.error", "wamp.error.no_such_realm"}

\* An error value: nil, an error of errors.New, or a client.RPCError whose Err
\* is nil or points to a wamp.Error with the URI uri.
GoError(type, errNil, uri) == [type |-> type, errNil |-> errNil, uri |-> uri]

ErrorValues ==
    {GoError("nil", TRUE, ""),
     GoError("errorString", TRUE, "invalid"),
     GoError("errorString", TRUE, "wamp.error.no_such_realm"),
     GoError("RPCError", TRUE, ""),
     GoError("RPCError", FALSE, "wamp.error.no_such_realm"),
     GoError("RPCError", FALSE, "test.error")}

\* _, ok := err.(client.RPCError); return ok
IsRPCError(err) == err.type = "RPCError"

\* A result of a function that may panic: it returned value, or it panicked.
Returns(value) == [panics |-> FALSE, value |-> value]

Panics == [panics |-> TRUE, value |-> FALSE]

\* The URI is not compared: every RPC error is the specific one.
IsSpecificRPCErrorAnyURI(err, uri) ==
    IF err.type # "RPCError" THEN Returns(FALSE)
    ELSE IF err.errNil THEN Panics
    ELSE Returns(TRUE)

\* rpc, ok := err.(client.RPCError); return ok && rpc.Err.Error == uri
\* rpc.Err is a *wamp.Error: reading its field through nil panics.
IsSpecificRPCError(err, uri) ==
    IF err.type # "RPCError" THEN Returns(FALSE)
    ELSE IF err.errNil THEN Panics
    ELSE Returns(err.uri = uri)

Digits == <<"0", "1", "2", "3", "4", "5", "6", "7", "8", "9">>

\* strconv.FormatUint(n, 10)
RECURSIVE FormatUint(_)
FormatUint(n) ==
    IF n < 10 THEN <<Digits[n + 1]>>
    ELSE Append(FormatUint(n \div 10), Digits[(n % 10) + 1])

\* strconv.FormatInt(i, 10)
FormatInt(i) == IF i < 0 THEN <<"-">> \o FormatUint(0 - i) ELSE FormatUint(i)

\* strconv.FormatFloat(f, 'f', -1, 64) of a float f >= 0 counted in tenths
FormatFloat(tenths) ==
    IF tenths % 10 = 0 THEN FormatUint(tenths \div 10)
    ELSE FormatUint(tenths \div 10) \o <<".", Digits[(tenths % 10) + 1]>>

DigitValue(c) == CHOOSE d \in 0..9 : Digits[d + 1] = c

RECURSIVE ParseDigits(_, _)
ParseDigits(chars, base) ==
    IF chars = <<>> THEN 0
    ELSE ParseDigits(SubSeq(chars, 1, Len(chars) - 1), base) * base
           + DigitValue(chars[Len(chars)])

\* strconv.ParseUint(str, 0, 64) on strings of digits and letters: with base 0
\* a leading "0" announces an octal numeral; a string with anything but digits
\* of its base, the empty string included, is an error.
ParseUint(chars) ==
    LET isDigit(c) == \E d \in DOMAIN Digits : Digits[d] = c
        failed == [n |-> 0, err |-> TRUE]
    IN  IF chars = <<>> \/ \E i \in DOMAIN chars : ~isDigit(chars[i]) THEN failed
        ELSE IF Len(chars) > 1 /\ chars[1] = "0"
          THEN IF \E i \in DOMAIN chars : DigitValue(chars[i]) > 7 THEN failed
               ELSE [n |-> ParseDigits(Tail(chars), 8), err |-> FALSE]
        ELSE [n |-> ParseDigits(chars, 10), err |-> FALSE]

\* A uint64 (wamp.ID): pow64 * 2^64 + plus.
Uint64(pow64, plus) == [pow64 |-> pow64, plus |-> plus]

\* uint64(i) of an int64 i: a negative i wraps around to 2^64 + i.
Uint64FromInt(i) == Uint64(IF i < 0 THEN 1 ELSE 0, i)

\* What decoding one value gives: the value for the field, and the error.
Decoded(v) == [v |-> v, err |-> FALSE]

Undecodable(zero) == [v |-> zero, err |-> TRUE]

\* The input is decoded as typed: no conversion between types.
WeaklyTypedInputOff == FALSE

\* mapstructure.WeakDecode decodes with DecoderConfig.WeaklyTypedInput = true.
WeaklyTypedInput == TRUE

\* mapstructure decoding into a uint64 field (a missing or nil value leaves the
\* field alone).
DecodeUint(data) ==
    CASE data.kind \in {"absent", "nil"} -> Decoded(Uint64(0, 0))
      [] data.kind = "int" ->
           IF data.n < 0 /\ ~WeaklyTypedInput THEN Undecodable(Uint64(0, 0))
           ELSE Decoded(Uint64FromInt(data.n))
      [] data.kind = "float" -> Decoded(Uint64(0, data.n \div 10))
      [] data.kind = "bool" /\ WeaklyTypedInput -> Decoded(Uint64(0, data.n))
      [] data.kind = "string" /\ WeaklyTypedInput ->
           IF ParseUint(data.s).err THEN Undecodable(Uint64(0, 0))
           ELSE Decoded(Uint64(0, ParseUint(data.s).n))
      [] OTHER -> Undecodable(Uint64(0, 0))

\* mapstructure decoding into a string field
DecodeString(data) ==
    CASE data.kind \in {"absent", "nil"} -> Decoded(<<>>)
      [] data.kind = "string" -> Decoded(data.s)
      [] data.kind = "bool" /\ WeaklyTypedInput ->
           Decoded(IF data.n = 1 THEN <<"1">> ELSE <<"0">>)
      [] data.kind = "int" /\ WeaklyTypedInput -> Decoded(FormatInt(data.n))
      [] data.kind = "float" /\ WeaklyTypedInput -> Decoded(FormatFloat(data.n))
      [] OTHER -> Undecodable(<<>>)

\* mapstructure decoding into a []string field: a list element by element, an
\* empty map as the empty list, any other single value as a list of one.
DecodeSlice(data) ==
    CASE data.kind \in {"absent", "nil"} -> Decoded(<<>>)
      [] data.kind = "list" ->
           [v |-> [i \in DOMAIN data.l |-> DecodeString(data.l[i]).v],
            err |-> \E i \in DOMAIN data.l : DecodeString(data.l[i]).err]
      [] data.kind = "dict" /\ WeaklyTypedInput /\ data.n = 0 -> Decoded(<<>>)
      [] data.kind \notin {"list", "dict"} /\ WeaklyTypedInput ->
           [v |-> <<DecodeString(data).v>>, err |-> DecodeString(data).err]
      [] OTHER -> Undecodable(<<>>)

\* The fields are looked up by their names: the struct has no tags.
FieldKeysUntagged ==
    [Session |-> "session", Username |-> "username", Role |-> "role"]

\* The mapstructure tags of CallerID
FieldKeys ==
    [Session |-> "caller", Username |-> "caller_authid",
     Role |-> "caller_authrole"]

\* details[key], Absent without the key
Lookup(details, key) == IF key \in DOMAIN details THEN details[key] ELSE Absent

\* A *CallerID: nil, or pointing to the struct.
CallerID(session, username, role) ==
    [nil |-> FALSE, Session |-> session, Username |-> username, Role |-> role]

NilCallerID ==
    [nil |-> TRUE, Session |-> Uint64(0, 0), Username |-> <<>>, Role |-> <<>>]

\* mapstructure.WeakDecode(details, c): every field is decoded, the errors are
\* collected.
WeakDecode(details) ==
    LET session == DecodeUint(Lookup(details, FieldKeys.Session))
        username == DecodeString(Lookup(details, FieldKeys.Username))
        role == DecodeSlice(Lookup(details, FieldKeys.Role))
    IN  [c |-> CallerID(session.v, username.v, role.v),
         err |-> session.err \/ username.err \/ role.err]

\* ParseCallerID: (nil, err) or (c, nil)
ParseCallerID(details) ==
    IF WeakDecode(details).err THEN [c |-> NilCallerID, err |-> TRUE]
    ELSE [c |-> WeakDecode(details).c, err |-> FALSE]

\* The details of the model.
CallerInputs ==
    {Absent, GoNil, GoInt(12345), GoInt(0), GoInt(0 - 1), GoFloat(123450),
     GoFloat(15), GoBool(TRUE), GoString(Str12345), GoString(Str017),
     GoString(StrAbc), GoList(<<GoInt(12345)>>), GoDict(1)}

AuthidInputs ==
    {Absent, GoString(StrFoo), GoString(<<>>), GoInt(7), GoFloat(15),
     GoBool(FALSE), GoList(<<GoString(StrFoo)>>), GoDict(1)}

AuthroleInputs ==
    {Absent, GoList(<<GoString(StrTrusted), GoString(StrAdmin)>>), GoList(<<>>),
     GoString(StrAdmin), GoInt(5), GoList(<<GoString(StrAdmin), GoInt(5)>>),
     GoList(<<GoDict(1)>>), GoDict(0), GoDict(1)}

DetailsInputs ==
    [caller : CallerInputs, caller_authid : AuthidInputs,
     caller_authrole : AuthroleInputs]

\* The inner loop of HasAnyRole: r against test[j], test[j+1], ...
RECURSIVE RoleInTest(_, _, _)
RoleInTest(r, test, j) ==
    IF j > Len(test) THEN FALSE
    ELSE IF r = test[j] THEN TRUE
    ELSE RoleInTest(r, test, j + 1)

\* The outer loop of HasAnyRole: role[i], role[i+1], ... each against test.
RECURSIVE AnyRoleFrom(_, _, _)
AnyRoleFrom(role, test, i) ==
    IF i > Len(role) THEN FALSE
    ELSE IF RoleInTest(role[i], test, 1) THEN TRUE
    ELSE AnyRoleFrom(role, test, i + 1)

\* A variant comparing only the first role with the first element of test.
HasAnyRoleFirstOnly(c, test) ==
    IF c.nil THEN Panics
    ELSE Returns(Len(c.Role) > 0 /\ Len(test) > 0 /\ c.Role[1] = test[1])

\* (c *CallerID).HasAnyRole(test): c.Role of a nil c is a nil dereference.
HasAnyRole(c, test) ==
    IF c.nil THEN Panics ELSE Returns(AnyRoleFrom(c.Role, test, 1))

\* The role lists of the model, of callers and of tests.
RoleLists ==
    {<<>>, <<StrTrusted>>, <<StrFoo>>, <<StrTrusted, StrAdmin>>,
     <<StrFoo, StrAdmin>>, <<StrAdmin, StrAdmin>>}

\* The callers of the model.
Callers ==
    {NilCallerID} \cup
    {CallerID(Uint64(0, 12345), StrFoo, role) : role \in RoleLists}

\* One call of a helper and its return.
CallReturnEmpty ==
    /\ hPc = "called"
    /\ hFn = "ReturnEmpty"
    /\ hRet' = ReturnEmpty
    /\ hPc' = "returned"
    /\ UNCHANGED <<hFn, hArgs>>
    /\ UNCHANGED notHelpers

CallReturnValue ==
    /\ hPc = "called"
    /\ hFn = "ReturnValue"
    /\ hRet' = ReturnValue(hArgs[1])
    /\ hPc' = "returned"
    /\ UNCHANGED <<hFn, hArgs>>
    /\ UNCHANGED notHelpers

CallReturnError ==
    /\ hPc = "called"
    /\ hFn = "ReturnError"
    /\ hRet' = ReturnError(hArgs[1])
    /\ hPc' = "returned"
    /\ UNCHANGED <<hFn, hArgs>>
    /\ UNCHANGED notHelpers

CallIsRPCError ==
    /\ hPc = "called"
    /\ hFn = "IsRPCError"
    /\ hRet' = Returns(IsRPCError(hArgs[1]))
    /\ hPc' = "returned"
    /\ UNCHANGED <<hFn, hArgs>>
    /\ UNCHANGED notHelpers

CallIsSpecificRPCError ==
    /\ hPc = "called"
    /\ hFn = "IsSpecificRPCError"
    /\ hRet' = IsSpecificRPCError(hArgs[1], hArgs[2])
    /\ hPc' = "returned"
    /\ UNCHANGED <<hFn, hArgs>>
    /\ UNCHANGED notHelpers

CallParseCallerID ==
    /\ hPc = "called"
    /\ hFn = "ParseCallerID"
    /\ hRet' = ParseCallerID(hArgs[1])
    /\ hPc' = "returned"
    /\ UNCHANGED <<hFn, hArgs>>
    /\ UNCHANGED notHelpers

CallHasAnyRole ==
    /\ hPc = "called"
    /\ hFn = "HasAnyRole"
    /\ hRet' = HasAnyRole(hArgs[1], hArgs[2])
    /\ hPc' = "returned"
    /\ UNCHANGED <<hFn, hArgs>>
    /\ UNCHANGED notHelpers

NextHelpers ==
    \/ CallReturnEmpty
    \/ CallReturnValue
    \/ CallReturnError
    \/ CallIsRPCError
    \/ CallIsSpecificRPCError
    \/ CallParseCallerID
    \/ CallHasAnyRole

(***************************************************************************)
(* Specifications                                                          *)
(***************************************************************************)

FlagsStart ==
    /\ fsPc = "start"
    /\ fsSetting \in DOMAIN StringFlags \cup DOMAIN BoolFlags
    /\ IF fsSetting \in DOMAIN BoolFlags
         THEN /\ fsEnv \in EnvOver(FlagEnvStrings)
              /\ fsArg \in ArgOver(BOOLEAN)
              /\ fsDefault = FALSE
              /\ fsFlag = FALSE
         ELSE /\ fsEnv \in EnvOver(FlagStrings)
              /\ fsArg \in ArgOver(FlagStrings)
              /\ fsDefault \in FlagStrings
              /\ fsFlag = ""

InitFlags ==
    /\ FlagsStart
    /\ srv = ZeroService
    /\ exitCode = Running
    /\ RunIdle
    /\ RegIdle
    /\ NewIdle
    /\ HelpersIdle

SpecFlags == InitFlags /\ [][NextFlags]_vars

InitNew ==
    /\ newPc = "start"
    /\ defaultConfig \in Configs
    /\ cliSer = NotGiven
    /\ cli = Unparsed
    /\ pingEnableSrc = NoPingEnableSrc
    /\ osEnv = NoEnv
    /\ clientCfg = "none"
    /\ connectAttempts = 0
    /\ srv = ZeroService
    /\ exitCode = Running
    /\ RunIdle
    /\ RegIdle
    /\ FlagsIdle
    /\ HelpersIdle

SpecNew == InitNew /\ [][NextNew]_vars

\* A Service as New returns it and Connect completes it, with ping enabled or not.
ConnectedService(pingEnable) ==
    LET c == [cliVer |-> FALSE, cliURL |-> WsURL, cliUsr |-> "", cliPwd |-> "",
              cliRlm |-> "realm1", cliCCF |-> "", cliCKF |-> "", cliSCF |-> "",
              cliTimeout |-> "0s", pingEnable |-> pingEnable,
              pingEndpoint |-> "", pingInterval |-> "5s"]
        lg == [getLoggerErr |-> FALSE, logFormat |-> "", formatterErr |-> FALSE]
        out == CHOOSE o \in BuildOutcomes(c, CHOOSE cfg \in Configs : TRUE, lg) :
                  o.exit = Running
    IN  [out.srv EXCEPT !.Client = "client"]

\* Run is called on a connected Service.
InitRun ==
    /\ \E pingEnable \in BOOLEAN : srv = ConnectedService(pingEnable)
    /\ runPc = "entry"
    /\ sigintChannel = 0
    /\ sigintSeen = FALSE
    /\ clientDone = FALSE
    /\ closeByMain = 0
    /\ closeByPing = 0
    /\ pingClose = "none"
    /\ pingPc = "none"
    /\ tickerC = 0
    /\ pingStarted = 0
    /\ pingCalls = 0
    /\ pingFailed = FALSE
    /\ callsAfterReturn = FALSE
    /\ closeFailed = FALSE
    /\ RegIdle
    /\ FlagsIdle
    /\ NewIdle
    /\ HelpersIdle
    /\ exitCode = Running

SpecRun == InitRun /\ [][NextRun]_vars

\* A runnable goroutine is scheduled; a call returns (at the latest at its
\* context's deadline); a select whose stop case is ready again and again takes
\* it (Go chooses among the ready cases at random); a closed client is done.
FairRun ==
    /\ SpecRun
    /\ WF_vars(RunMain)
    /\ WF_vars(PingCallOk \/ PingCallErr)
    /\ WF_vars(PingCloseClient)
    /\ SF_vars(PingSelectStop)
    /\ WF_vars(DoneOnClose)

InitReg ==
    /\ RegIdle
    /\ exitCode = Running
    /\ srv = ConnectedService(TRUE)
    /\ RunIdle
    /\ FlagsIdle
    /\ NewIdle
    /\ HelpersIdle

SpecReg == InitReg /\ [][NextReg]_vars

\* A helper is called with arguments of the model.
HelpersStart ==
    /\ hPc = "called"
    /\ hRet = NotReturned
    /\ \/ hFn = "ReturnEmpty" /\ hArgs = <<>>
       \/ hFn = "ReturnValue" /\ hArgs \in {<<v>> : v \in ReturnValues}
       \/ hFn = "ReturnError" /\ hArgs \in {<<u>> : u \in URIs}
       \/ hFn = "IsRPCError" /\ hArgs \in {<<e>> : e \in ErrorValues}
       \/ hFn = "IsSpecificRPCError" /\ hArgs \in ErrorValues \X URIs
       \/ hFn = "ParseCallerID" /\ hArgs \in {<<d>> : d \in DetailsInputs}
       \/ hFn = "HasAnyRole" /\ hArgs \in Callers \X RoleLists

InitHelpers ==
    /\ HelpersStart
    /\ srv = ZeroService
    /\ exitCode = Running
    /\ RunIdle
    /\ RegIdle
    /\ FlagsIdle
    /\ NewIdle

SpecHelpers == InitHelpers /\ [][NextHelpers]_vars

(***************************************************************************)
(* Claims about Run and runPing                                            *)
(***************************************************************************)

\* C1: Run does not return while neither an interrupt nor the client's done
\* notification has occurred, and once either has occurred Run returns.
C1_RunReturnsOnEvent ==
    /\ [](runPc = "returned" => (sigintSeen \/ clientDone))
    /\ ((sigintSeen \/ clientDone) ~> (runPc = "returned"))

\* Run returned after an interrupt while the client was not done.
C1_Witness == runPc = "returned" /\ sigintSeen /\ ~clientDone

\* C2: whenever Run has returned, by the interrupt or by the done branch, the
\* stop channel handed to runPing is closed.
C2_StopClosedBeforeReturn == runPc = "returned" => pingClose = "closed"

\* Run returned by the done branch (no interrupt was ever delivered).
C2_Witness == runPc = "returned" /\ ~sigintSeen /\ pingClose = "closed"

\* C3: once a keepalive call has failed, runPing issues no further call, it is
\* about to close the client or has closed it and left its loop, and it does
\* get there.
C3_PingFailureClosesAndStops ==
    /\ [][pingFailed => ~(pingPc # "calling" /\ pingPc' = "calling")]_vars
    /\ [](pingFailed => (pingPc = "failed"
                           \/ (pingPc = "exited" /\ closeByPing = 1)))
    /\ (pingFailed ~> (pingPc = "exited" /\ closeByPing = 1))

\* A keepalive call failed; runPing closed the client and left its loop.
C3_Witness == pingFailed /\ pingPc = "exited" /\ closeByPing = 1

\* C4: after Run has closed the stop channel, a started runPing leaves its loop.
C4_PingTerminatesAfterStop ==
    (pingClose = "closed" /\ pingPc # "none") ~> (pingPc = "exited")

\* runPing left its loop by the stop channel, no keepalive call having failed.
C4_Witness == pingClose = "closed" /\ pingPc = "exited" /\ ~pingFailed

\* C5: runPing is started at most once and only when ping is enabled; with ping
\* disabled there is no runPing and no keepalive call.
C5_PingOnlyWhenEnabled ==
    /\ pingStarted <= 1
    /\ (pingStarted = 1 => srv.pingEnabled)
    /\ (~srv.pingEnabled => (pingCalls = 0 /\ pingPc = "none"))

\* Run went through to its return with ping disabled.
C5_Witness == ~srv.pingEnabled /\ runPc = "returned" /\ pingStarted = 0

(***************************************************************************)
(* Claims about RegisterAll and SubscribeAll                               *)
(***************************************************************************)

\* The calls of a log that returned an error.
Failed(calls) == {i \in DOMAIN calls : calls[i].err # Nil}

\* Every key of the mapping was handed to the client exactly once, with its
\* handler and its options, and nothing else was.
OncePerKey(calls, mapping) ==
    /\ \A k \in DOMAIN mapping :
         Cardinality({i \in DOMAIN calls : calls[i].name = k}) = 1
    /\ \A i \in DOMAIN calls :
         /\ calls[i].name \in DOMAIN mapping
         /\ calls[i].handler = mapping[calls[i].name].Handler
         /\ calls[i].options = mapping[calls[i].name].Options

\* C6: RegisterAll never ends the process; once it has returned, it returned nil
\* exactly if every Register call succeeded, and otherwise a RegistrationError
\* naming the procedure of the failed call with that call's error as Inner.
C6_RegisterAllResult ==
    /\ call = "RegisterAll" => exitCode = Running
    /\ (call = "RegisterAll" /\ Failed(regCalls) # {}) => regRet # NotReturned
    /\ regRet # NotReturned =>
         /\ (regRet = NilReturned) <=> (Failed(regCalls) = {})
         /\ regRet # NilReturned =>
              \E i \in Failed(regCalls) :
                 /\ Failed(regCalls) = {i}
                 /\ regRet = [ProcedureName |-> regCalls[i].name,
                              Inner |-> regCalls[i].err]

\* RegisterAll returned an error after one call had succeeded.
C6_Witness == regRet \notin {NotReturned, NilReturned} /\ Len(regCalls) = 2

\* C7: SubscribeAll never ends the process; once it has returned, it returned
\* nil exactly if every Subscribe call succeeded, and otherwise a
\* SubscriptionError naming the topic of the failed call with that call's error
\* as Inner.
C7_SubscribeAllResult ==
    /\ call = "SubscribeAll" => exitCode = Running
    /\ (call = "SubscribeAll" /\ Failed(subCalls) # {}) => subRet # NotReturned
    /\ subRet # NotReturned =>
         /\ (subRet = NilReturned) <=> (Failed(subCalls) = {})
         /\ subRet # NilReturned =>
              \E i \in Failed(subCalls) :
                 /\ Failed(subCalls) = {i}
                 /\ subRet = [Topic |-> subCalls[i].name,
                              Inner |-> subCalls[i].err]

\* SubscribeAll returned an error after one call had succeeded.
C7_Witness == subRet \notin {NotReturned, NilReturned} /\ Len(subCalls) = 2

\* C8: when RegisterAll (SubscribeAll) has returned nil, Register (Subscribe) was
\* called exactly once for every key of the mapping, with that key's handler
\* and options, and for no other name.
C8_OneCallPerEntry ==
    /\ regRet = NilReturned => OncePerKey(regCalls, procedures)
    /\ subRet = NilReturned => OncePerKey(subCalls, events)

\* RegisterAll returned nil for a mapping with two entries of different options.
C8_Witness ==
    /\ regRet = NilReturned
    /\ Cardinality(DOMAIN procedures) = 2
    /\ \E a, b \in DOMAIN procedures : procedures[a].Options # procedures[b].Options

(***************************************************************************)
(* Claims about the configuration New resolves                             *)
(***************************************************************************)

\* C9: for every string setting, the value the parsed flag gives New is the
\* command line's when the flag is given, otherwise the environment variable's
\* when it is set, otherwise the default the caller supplied.
C9_FlagThenEnvThenDefault ==
    (fsPc = "parsed" /\ fsSetting \in DOMAIN StringFlags) =>
        fsFlag = (IF fsArg.given THEN fsArg.value
                  ELSE IF fsEnv.set THEN fsEnv.value
                  ELSE fsDefault)

\* flag.Parse returned: New has the values of its flags.
FlagsParsed == newPc # "start" /\ ~cliSer.given

\* C10 as stated: with an empty resolved broker URL or realm, New ends the
\* process with ExitArgument, returns no Service, and nothing connects.
C10_EmptyURLOrRealmExitsArgument ==
    (FlagsParsed /\ (cli.cliURL = EmptyURL \/ cli.cliRlm = "")) =>
        /\ newPc # "returned"
        /\ connectAttempts = 0
        /\ newPc = "exited" => exitCode = Exited(ExitArgument)

\* C10 as amended: with an empty resolved broker URL or realm, New ends the
\* process, returns no Service, and nothing connects; the exit code is
\* ExitArgument unless the version flag was given (ExitSuccess) or
\* logging.GetLogger failed (ExitService).
C10_EmptyURLOrRealmExits ==
    (FlagsParsed /\ (cli.cliURL = EmptyURL \/ cli.cliRlm = "")) =>
        /\ newPc # "returned"
        /\ connectAttempts = 0
        /\ newPc = "exited" =>
             exitCode = Exited(IF cli.cliVer THEN ExitSuccess
                               ELSE IF osEnv.logger.getLoggerErr THEN ExitService
                               ELSE ExitArgument)

\* New ended the process with ExitArgument for an empty realm, the URL being
\* given, the version flag not, and the logger set up.
C10_Witness ==
    /\ newPc = "exited"
    /\ ~cli.cliVer
    /\ cli.cliURL # EmptyURL
    /\ cli.cliRlm = ""
    /\ srv.Logger = "logger"
    /\ exitCode = Exited(ExitArgument)

\* The exit code of a check of New that ends the process with ExitArgument:
\* the version print and setupLogger come before it.
ExitOfCheck ==
    Exited(IF cli.cliVer THEN ExitSuccess
           ELSE IF osEnv.logger.getLoggerErr THEN ExitService
           ELSE ExitArgument)

\* A string time.ParseDuration rejects.
InvalidDuration(str) == str \notin DOMAIN Durations

\* C11 as stated: with a connect timeout or a ping interval that is not a valid
\* duration, New ends the process with ExitArgument and returns no Service
\* (the exit code read as that of a check of New: see ExitOfCheck).
C11_InvalidDurationExitsArgument ==
    (FlagsParsed /\ (InvalidDuration(cli.cliTimeout)
                       \/ InvalidDuration(cli.pingInterval))) =>
        /\ newPc # "returned"
        /\ newPc = "exited" => exitCode = ExitOfCheck

\* C11 as amended: with a connect timeout that is not a valid duration New
\* returns no Service and ends the process, with ExitArgument unless the
\* version print or setupLogger ended it before; a ping interval that is not a
\* valid duration ends nothing: a Service New returns has the interval 10s.
C11_InvalidTimeoutExits ==
    /\ (FlagsParsed /\ InvalidDuration(cli.cliTimeout)) =>
          /\ newPc # "returned"
          /\ newPc = "exited" => exitCode = ExitOfCheck
    /\ (newPc = "returned" /\ InvalidDuration(cli.pingInterval)) =>
          srv.pingInterval = 10 * Second

\* New ended the process with ExitArgument for the timeout "abc": the logger was
\* set up, the URL and the realm were given.
C11_Witness ==
    /\ newPc = "exited"
    /\ FlagsParsed
    /\ ~cli.cliVer
    /\ srv.Logger = "logger"
    /\ cli.cliURL # EmptyURL
    /\ cli.cliRlm # ""
    /\ cli.cliTimeout = "abc"
    /\ exitCode = Exited(ExitArgument)

\* A TLS file path that is configured while the file does not exist.
Missing(fname) == fname # "" /\ fname \notin ExistingFiles

\* C12 as stated: with a server certificate, client certificate or client key
\* path configured whose file does not exist, New ends the process with
\* ExitArgument and returns no Service (the exit code read as that of a check of
\* New: see ExitOfCheck).
C12_MissingTLSFileExitsArgument ==
    (FlagsParsed /\ (Missing(cli.cliSCF) \/ Missing(cli.cliCCF)
                       \/ Missing(cli.cliCKF))) =>
        /\ newPc # "returned"
        /\ newPc = "exited" => exitCode = ExitOfCheck

\* The TLS files New looks at: under wss:// the server certificate when its
\* path is given, the client certificate and key when both paths are given.
MissingTLSFileInUse ==
    /\ HasPrefix(cli.cliURL, WssPrefix)
    /\ \/ Missing(cli.cliSCF)
       \/ /\ cli.cliCCF # ""
          /\ cli.cliCKF # ""
          /\ (Missing(cli.cliCCF) \/ Missing(cli.cliCKF))

\* C12 as amended: when the URL starts with wss:// and the server certificate
\* path is given, or both the client certificate and the client key paths are
\* given, and such a file does not exist, New returns no Service and ends the
\* process, with ExitArgument unless the version print or setupLogger ended it
\* before.
C12_MissingTLSFileInUseExits ==
    (FlagsParsed /\ MissingTLSFileInUse) =>
        /\ newPc # "returned"
        /\ newPc = "exited" => exitCode = ExitOfCheck

\* New ended the process in ensureFileExists for the client key: wss://, the
\* realm and a valid timeout given, the client certificate's file existing.
C12_Witness ==
    /\ newPc = "exited"
    /\ FlagsParsed
    /\ ~cli.cliVer
    /\ HasPrefix(srv.url, WssPrefix)
    /\ cli.cliRlm # ""
    /\ ~InvalidDuration(cli.cliTimeout)
    /\ cli.cliSCF = ""
    /\ cli.cliCCF = "client.crt"
    /\ cli.cliCKF = "missing.key"
    /\ osEnv.clientCert = "unused"
    /\ exitCode = Exited(ExitArgument)

\* The serialization a string names, as the New that had a --serialization
\* flag translated it.
SerializationNamed == ("json" :> "JSON") @@ ("msgpack" :> "MSGPACK")

C14_ConnectFailureExits ==
    connectAttempts > 0 =>
        \/ exitCode = Exited(ExitConnect) /\ srv.Client = "nil"
        \/ exitCode = Running /\ srv.Client = "client"

\* Connecting failed and the process ended with ExitConnect.
C14_Witness ==
    /\ connectAttempts = 1
    /\ srv.Client = "nil"
    /\ exitCode = Exited(ExitConnect)

\* TLS client authentication is configured: wss:// and both client files given.
TLSClientAuth ==
    /\ HasPrefix(cli.cliURL, WssPrefix)
    /\ cli.cliCCF # ""
    /\ cli.cliCKF # ""

\* Ticket authentication is configured: no TLS client authentication, and both
\* the user and the password given.
TicketAuth == ~TLSClientAuth /\ cli.cliUsr # "" /\ cli.cliPwd # ""

\* C15: the client configuration Connect builds has only a "tls" handler under
\* TLS client authentication; otherwise only a "ticket" handler answering with
\* the password, and the user as authid, when user and password are given;
\* otherwise no handler and no authid.
C15_AuthModeByConfiguration ==
    connectAttempts > 0 =>
        /\ TLSClientAuth =>
             {h[1] : h \in clientCfg.AuthHandlers} = {"tls"}
        /\ TicketAuth =>
             /\ clientCfg.AuthHandlers = {<<"ticket", cli.cliPwd>>}
             /\ clientCfg.HelloDetails = {<<"authid", cli.cliUsr>>}
        /\ (~TLSClientAuth /\ ~TicketAuth) =>
             /\ clientCfg.AuthHandlers = {}
             /\ clientCfg.HelloDetails = {}

\* Connect built a configuration for TLS client authentication while a user
\* and a password were given too.
C15_Witness ==
    /\ connectAttempts > 0
    /\ TLSClientAuth
    /\ cli.cliUsr # ""
    /\ cli.cliPwd # ""
    /\ clientCfg.AuthHandlers = {<<"tls", "">>}

\* C16: when New reads the version flag as given, the process has ended with
\* ExitSuccess and nothing else was done: no Service field was set, neither the
\* logger nor a certificate was looked at, nothing connected.
C16_VersionExitsFirst ==
    (newPc # "start" /\ cli.cliVer) =>
        /\ newPc = "exited"
        /\ exitCode = Exited(ExitSuccess)
        /\ srv = ZeroService
        /\ osEnv = NoEnv
        /\ connectAttempts = 0

\* The version was printed with the URL and the realm missing and the timeout
\* no duration.
C16_Witness ==
    /\ cli.cliVer
    /\ cli.cliURL = EmptyURL
    /\ cli.cliRlm = ""
    /\ cli.cliTimeout = "abc"
    /\ exitCode = Exited(ExitSuccess)

(***************************************************************************)
(* Claims about the helpers                                                *)
(***************************************************************************)

\* C17: ReturnEmpty returns a result without arguments, keyword arguments and
\* error; ReturnValue(v) one whose arguments are the list of v alone, without
\* keyword arguments and error; ReturnError(u) one with the error URI u,
\* without arguments and keyword arguments.
C17_ResponseHelpersFillOneField ==
    hPc = "returned" =>
        /\ hFn = "ReturnEmpty" =>
             hRet.Args = <<>> /\ hRet.Kwargs = {} /\ hRet.Err = ""
        /\ hFn = "ReturnValue" =>
             hRet.Args = <<hArgs[1]>> /\ hRet.Kwargs = {} /\ hRet.Err = ""
        /\ hFn = "ReturnError" =>
             hRet.Err = hArgs[1] /\ hRet.Args = <<>> /\ hRet.Kwargs = {}

\* ReturnError("test.error") returned.
C17_Witness ==
    /\ hPc = "returned"
    /\ hFn = "ReturnError"
    /\ hArgs = <<"test.error">>
    /\ hRet.Err = "test.error"

\* C18: IsRPCError(e) returns true exactly for a client.RPCError and false for
\* every other error; IsSpecificRPCError(e, u) returns true exactly for a
\* client.RPCError whose error has the URI u, and then IsRPCError(e) is true.
C18_RPCErrorsClassified ==
    hPc = "returned" =>
        /\ hFn = "IsRPCError" =>
             hRet = Returns(hArgs[1].type = "RPCError")
        /\ hFn = "IsSpecificRPCError" =>
             /\ hRet = Returns(TRUE) <=>
                  /\ hArgs[1].type = "RPCError"
                  /\ ~hArgs[1].errNil
                  /\ hArgs[1].uri = hArgs[2]
             /\ hRet = Returns(TRUE) => IsRPCError(hArgs[1])

\* IsSpecificRPCError returned false for an RPC error with another URI.
C18_Witness ==
    /\ hPc = "returned"
    /\ hFn = "IsSpecificRPCError"
    /\ hArgs[1].type = "RPCError"
    /\ ~hArgs[1].errNil
    /\ hArgs[1].uri # hArgs[2]
    /\ hRet = Returns(FALSE)

\* A list whose elements are strings.
ListOfStrings(v) ==
    v.kind = "list" /\ \A i \in DOMAIN v.l : v.l[i].kind = "string"

\* The session is the number: a uint64 below 2^64 equal to it.
SessionIs(session, number) ==
    /\ session.pow64 = 0
    /\ IF number.kind = "int" THEN session.plus = number.n
       ELSE number.n % 10 = 0 /\ session.plus = number.n \div 10

\* ParseCallerID returned the CallerID of the details, field by field.
ParsedAsGiven ==
    /\ ~hRet.err
    /\ ~hRet.c.nil
    /\ SessionIs(hRet.c.Session, hArgs[1].caller)
    /\ hRet.c.Username = hArgs[1].caller_authid.s
    /\ hRet.c.Role = [i \in DOMAIN hArgs[1].caller_authrole.l |->
                        hArgs[1].caller_authrole.l[i].s]

\* C19 as stated: for details whose "caller" is a number, "caller_authid" a
\* string and "caller_authrole" a list of strings, ParseCallerID returns no
\* error and a CallerID with these three values.
C19_WellTypedDetailsParsed ==
    (/\ hPc = "returned"
     /\ hFn = "ParseCallerID"
     /\ hArgs[1].caller.kind \in {"int", "float"}
     /\ hArgs[1].caller_authid.kind = "string"
     /\ ListOfStrings(hArgs[1].caller_authrole)) => ParsedAsGiven

\* A whole number that is not negative.
WholeNotNegative(v) ==
    \/ v.kind = "int" /\ v.n >= 0
    \/ v.kind = "float" /\ v.n >= 0 /\ v.n % 10 = 0

\* C19 as amended: the same for details whose "caller" is a whole number that
\* is not negative.
C19_SessionDetailsParsed ==
    (/\ hPc = "returned"
     /\ hFn = "ParseCallerID"
     /\ WholeNotNegative(hArgs[1].caller)
     /\ hArgs[1].caller_authid.kind = "string"
     /\ ListOfStrings(hArgs[1].caller_authrole)) => ParsedAsGiven

\* The details of TestCallerIDParse were parsed.
C19_Witness ==
    /\ hPc = "returned"
    /\ hFn = "ParseCallerID"
    /\ hArgs[1].caller = GoInt(12345)
    /\ hArgs[1].caller_authid = GoString(StrFoo)
    /\ hArgs[1].caller_authrole = GoList(<<GoString(StrTrusted), GoString(StrAdmin)>>)
    /\ hRet.c = CallerID(Uint64(0, 12345), StrFoo, <<StrTrusted, StrAdmin>>)

\* A key holds a value of another type than its field's.
TypeMismatch(details) ==
    \/ details.caller.kind \notin {"absent", "nil", "int", "float"}
    \/ details.caller_authid.kind \notin {"absent", "string"}
    \/ /\ details.caller_authrole.kind # "absent"
       /\ ~ListOfStrings(details.caller_authrole)

\* C20 as stated: whenever a key holds a value of another type than its
\* field's, ParseCallerID returns an error and a nil CallerID.
C20_TypeMismatchFails ==
    (hPc = "returned" /\ hFn = "ParseCallerID" /\ TypeMismatch(hArgs[1])) =>
        hRet.err /\ hRet.c.nil

\* An unsigned numeral: digits only, octal digits after a leading "0".
IsNumeral(chars) ==
    /\ chars # <<>>
    /\ \A i \in DOMAIN chars : \E d \in DOMAIN Digits : Digits[d] = chars[i]
    /\ (Len(chars) > 1 /\ chars[1] = "0") =>
          \A i \in DOMAIN chars : chars[i] \notin {"8", "9"}

\* A key holds a value that has no conversion to its field's type.
Unconvertible(details) ==
    \/ details.caller.kind \in {"list", "dict"}
    \/ details.caller.kind = "string" /\ ~IsNumeral(details.caller.s)
    \/ details.caller_authid.kind \in {"list", "dict"}
    \/ details.caller_authrole.kind = "dict" /\ details.caller_authrole.n > 0
    \/ /\ details.caller_authrole.kind = "list"
       /\ \E i \in DOMAIN details.caller_authrole.l :
             details.caller_authrole.l[i].kind \in {"list", "dict"}

\* C20 as amended: ParseCallerID returns an error, and then a nil CallerID,
\* exactly when a key holds a value that has no conversion to its field's type;
\* a value of another type that has one (a bool, a number for a string, a
\* numeral for the number, a single value for the list) is converted.
C20_UnconvertibleFails ==
    (hPc = "returned" /\ hFn = "ParseCallerID") =>
        /\ hRet.err <=> Unconvertible(hArgs[1])
        /\ hRet.c.nil <=> hRet.err

\* The details of TestInvalidParse were refused.
C20_Witness ==
    /\ hPc = "returned"
    /\ hFn = "ParseCallerID"
    /\ hArgs[1].caller = GoBool(TRUE)
    /\ hArgs[1].caller_authid = GoDict(1)
    /\ hArgs[1].caller_authrole = Absent
    /\ hRet.err
    /\ hRet.c.nil

\* Some role of the caller is an element of test.
SharesARole(c, test) ==
    \E i \in DOMAIN c.Role : \E j \in DOMAIN test : c.Role[i] = test[j]

\* C21: CallerID.HasAnyRole(test) is true if and only if at least one role of
\* the caller equals at least one element of test; in particular it is false
\* when test or the caller's role list is empty.
C21_HasAnyRoleIffShared ==
    (hPc = "returned" /\ hFn = "HasAnyRole" /\ ~hArgs[1].nil) =>
        /\ hRet = Returns(SharesARole(hArgs[1], hArgs[2]))
        /\ (hArgs[1].Role = <<>> \/ hArgs[2] = <<>>) => hRet = Returns(FALSE)

\* The caller of TestCallerIDParse has the second element of test as its
\* second role.
C21_Witness ==
    /\ hPc = "returned"
    /\ hFn = "HasAnyRole"
    /\ hArgs[1].Role = <<StrTrusted, StrAdmin>>
    /\ hArgs[2] = <<StrFoo, StrAdmin>>
    /\ hRet = Returns(TRUE)

(***************************************************************************)
(* Claims about the end of Run and the keepalive beside it                 *)
(***************************************************************************)

\* C22: Run terminates the process early, instead of returning normally, when
\* the client fails to leave the realm or closing the client connection fails.
C22_CloseFailureExits ==
    closeFailed => (exitCode # Running /\ runPc # "returned")

\* The names whose call returned no error: the entries that are registered.
Registered(calls) == {calls[i].name : i \in DOMAIN calls \ Failed(calls)}

\* The failed call is the last one of the log, and every entry the loop went
\* past is registered.
StoppedAtFailure(calls, mapping) ==
    /\ \A i \in Failed(calls) : i = Len(calls)
    /\ Registered(calls) = DOMAIN mapping \ pending

\* C23: RegisterAll and SubscribeAll stop at the first failing entry, in an
\* unspecified iteration order over the mapping: after the failing call no
\* further Register/Subscribe call is made, and the entries registered before
\* the failure stay registered (no rollback); while the loop runs, any entry not
\* yet visited can be the next one and can be the one that fails, so on error
\* any subset of the other entries may be registered.
C23_StopAtFirstFailure ==
    /\ call = "RegisterAll" => StoppedAtFailure(regCalls, procedures)
    /\ call = "SubscribeAll" => StoppedAtFailure(subCalls, events)
    /\ (call = "RegisterAll" /\ regRet = NotReturned) =>
         \A name \in pending :
            /\ ENABLED (RegisterAllStep /\ pending' = pending \ {name})
            /\ \A err \in Errors :
                 ENABLED (RegisterAllStep
                            /\ regRet' = [ProcedureName |-> name, Inner |-> err])
    /\ (call = "SubscribeAll" /\ subRet = NotReturned) =>
         \A topic \in pending :
            /\ ENABLED (SubscribeAllStep /\ pending' = pending \ {topic})
            /\ \A err \in Errors :
                 ENABLED (SubscribeAllStep
                            /\ subRet' = [Topic |-> topic, Inner |-> err])

\* RegisterAll failed at the second of three entries: one entry is registered
\* and one was never handed to the client.
C23_Witness ==
    /\ regRet \notin {NotReturned, NilReturned}
    /\ Cardinality(DOMAIN procedures) = 3
    /\ Cardinality(Registered(regCalls)) = 1
    /\ Len(regCalls) = 2
    /\ \E name \in pending : \A i \in DOMAIN regCalls : regCalls[i].name # name

\* C24: once Run has closed the stop channel and returned, which closes the
\* client, the keepalive task issues no further remote call on the client,
\* under every interleaving of the timer tick and the stop signal.
C24_NoCallAfterReturn ==
    (runPc = "returned" /\ pingClose = "closed") => ~callsAfterReturn

\* C25 as stated: during one execution of Run, Close is invoked on the client
\* at most once in total, counting the deferred Close of the main thread and
\* the Close of the keepalive task on a ping failure.
C25_CloseAtMostOnce == closeByMain + closeByPing <= 1

\* C25 as amended: Close is invoked at most twice in total, at most once by the
\* deferred Close of the main thread and at most once by the keepalive task,
\* the latter only after a ping failure.
C25_CloseAtMostOnceEach ==
    /\ closeByMain <= 1
    /\ closeByPing <= 1
    /\ closeByPing = 1 => pingFailed
    /\ closeByMain = 1 <=> runPc = "returned"

\* The keepalive task closed the client after a failure, Run returned on the
\* done notification and its deferred Close closed the client again.
C25_Witness ==
    /\ closeByPing = 1
    /\ closeByMain = 1
    /\ ~sigintSeen
    /\ ~callsAfterReturn

\* C26: if ping is enabled and a keepalive call fails or times out, Run
\* eventually returns, with no interrupt needed for it (the done notification
\* of the client fires once the client is closed).
C26_PingFailureEndsRun == (srv.pingEnabled /\ pingFailed) ~> (runPc = "returned")

\* Run returned after a failed keepalive call and no interrupt was delivered.
C26_Witness ==
    /\ srv.pingEnabled
    /\ pingFailed
    /\ runPc = "returned"
    /\ ~sigintSeen
    /\ sigintChannel = 0

(***************************************************************************)
(* Claims about the durations, the keepalive switch and the TLS identity   *)
(* of the Service New returns                                              *)
(***************************************************************************)

\* A duration string below one second: not zero for the timeout's rule.
BelowOneSecond(str) == str \in DOMAIN Durations /\ Durations[str] < 1 * Second

\* C27: in every Service New returns, the ping interval is at least 1 second,
\* an unparsable or sub-second value being replaced by 10 seconds, and the
\* connect timeout is 0 or at least 1 second, any non-zero value below 1 second,
\* negative ones included, being raised to 1 second.
C27_DurationsClamped ==
    newPc = "returned" =>
        /\ srv.pingInterval >= 1 * Second
        /\ (InvalidDuration(cli.pingInterval) \/ BelowOneSecond(cli.pingInterval))
             => srv.pingInterval = 10 * Second
        /\ srv.timeout = 0 \/ srv.timeout >= 1 * Second
        /\ (BelowOneSecond(cli.cliTimeout) /\ Durations[cli.cliTimeout] # 0)
             => srv.timeout = 1 * Second

\* New returned a Service for the timeout "-1s" and the ping interval "500ms":
\* the timeout is 1s and the interval 10s.
C27_Witness ==
    /\ newPc = "returned"
    /\ cli.cliTimeout = "-1s"
    /\ cli.pingInterval = "500ms"
    /\ srv.timeout = 1 * Second
    /\ srv.pingInterval = 10 * Second

\* C28: the keepalive is enabled in the Service New returns if and only if the
\* ping-enable flag evaluates to true; the flag is its argument when one is
\* given, and otherwise true exactly when SERVICE_ENABLE_PING is present,
\* whatever its value; with neither the keepalive is disabled.
C28_PingEnabledByFlagOrPresence ==
    newPc = "returned" =>
        /\ srv.pingEnabled <=> cli.pingEnable
        /\ cli.pingEnable <=> (IF pingEnableSrc.arg.given
                                 THEN pingEnableSrc.arg.value
                                 ELSE pingEnableSrc.env.set)
        /\ (~pingEnableSrc.arg.given /\ ~pingEnableSrc.env.set) => ~srv.pingEnabled

\* New returned a Service with the keepalive enabled by SERVICE_ENABLE_PING=false
\* alone.
C28_Witness ==
    /\ newPc = "returned"
    /\ ~pingEnableSrc.arg.given
    /\ pingEnableSrc.env = [set |-> TRUE, value |-> "false"]
    /\ srv.pingEnabled

\* C29: when no connect timeout is supplied by flag or environment, New does
\* not end the process for it (with a ws:// URL, a realm, no version flag and
\* the logger set up nothing else ends it), and the Service it returns has a
\* connect timeout of 0, with which Connect uses the library's default dialer.
C29_NoTimeoutUsesDefaultDialer ==
    (/\ FlagsParsed
     /\ newPc # "parsed"
     /\ cli.cliTimeout = ""
     /\ ~cli.cliVer
     /\ cli.cliURL = WsURL
     /\ cli.cliRlm # ""
     /\ srv.Logger = "logger") =>
        /\ newPc = "returned"
        /\ srv.timeout = 0
        /\ connectAttempts > 0 => clientCfg.Dial = "default"

\* C30: under TLS client-certificate authentication the user and the password
\* given by flag or environment are not stored in the Service, and Connect
\* sends hello details whose authid is the empty string.
C30_TLSAuthDropsUser ==
    /\ (newPc = "returned" /\ TLSClientAuth) =>
          /\ srv.username = ""
          /\ srv.password = ""
    /\ (connectAttempts > 0 /\ TLSClientAuth) =>
          clientCfg.HelloDetails = {<<"authid", "">>}

\* Connect sent an empty authid under TLS client authentication while a user
\* and a password were given.
C30_Witness ==
    /\ connectAttempts > 0
    /\ TLSClientAuth
    /\ cli.cliUsr = "user"
    /\ cli.cliPwd = "secret"
    /\ srv.clientCert = "cert"
    /\ clientCfg.HelloDetails = {<<"authid", "">>}

====
